---- MODULE Spec2Model ----
(***************************************************************************)
(* The bronze-layer converter of src/scripts/bronze.py: main() streams a   *)
(* compressed CSV, filters and normalizes each record batch, writes the    *)
(* result into row-count-bounded Parquet shards and keeps run statistics.  *)
(***************************************************************************)
EXTENDS Integers, Sequences, FiniteSets, TLC

\* ---------------------------------------------------------------- bounds
MaxBatches == 2        \* batches pulled from the reader in one run
MaxBatchRows == 2      \* rows of one decoded batch
MaxThreshold == 2      \* largest --rows-per-shard tried
MaxFilterRows == 3     \* rows of a batch given to the filter alone
MaxSizeRows == 2       \* rows of a batch whose sizes are measured
MaxSizeLen == 2        \* length of the texts of such a batch
MaxNormLen == 5        \* length of a text normalized twice

\* ------------------------------------------------------ program constants
NEEDED_COLS == {"plain_text", "id", "author_id", "author_str", "type",
                "date_created", "per_curiam"}
SUMMARY_EVERY == 25

\* ------------------------------------------------------------ text values
\* A text value is a sequence of characters; NULL is the CSV null string.
NULL == <<"NULL">>
\* the regex class \s is ASCII whitespace; utf8_trim_whitespace also trims the
\* whitespace Unicode defines outside ASCII, such as the no-break space
Whitespace == {" ", "\n"}
UnicodeWhitespace == Whitespace \cup {"nbsp"}
Alphabet == {"a"} \cup UnicodeWhitespace
Texts == {NULL, <<>>, <<"\n">>, <<"a">>}
Durations == {1}

IsSpace(c) == c \in Whitespace
IsUnicodeSpace(c) == c \in UnicodeWhitespace

\* the pattern written without its +: two whitespace characters become one
\* space, a single one stays
RECURSIVE replace_pairs(_)
replace_pairs(t) ==
    IF t = <<>> THEN <<>>
    ELSE IF Len(t) > 1 /\ IsSpace(t[1]) /\ IsSpace(t[2])
         THEN <<" ">> \o replace_pairs(Tail(Tail(t)))
         ELSE <<Head(t)>> \o replace_pairs(Tail(t))

\* pc.replace_substring_regex(plain_text, r"\s+", " "): every maximal run of
\* whitespace becomes one space.
RECURSIVE replace_substring_regex(_)
replace_substring_regex(t) ==
    IF t = <<>> THEN <<>>
    ELSE IF IsSpace(Head(t))
         THEN IF Len(t) > 1 /\ IsSpace(t[2])
              THEN replace_substring_regex(Tail(t))
              ELSE <<" ">> \o replace_substring_regex(Tail(t))
         ELSE <<Head(t)>> \o replace_substring_regex(Tail(t))

RECURSIVE TrimLeft(_)
TrimLeft(t) ==
    IF t # <<>> /\ IsUnicodeSpace(Head(t)) THEN TrimLeft(Tail(t)) ELSE t

RECURSIVE TrimRight(_)
TrimRight(t) ==
    IF t # <<>> /\ IsUnicodeSpace(t[Len(t)])
    THEN TrimRight(SubSeq(t, 1, Len(t) - 1)) ELSE t

\* pc.utf8_trim_whitespace
utf8_trim_whitespace(t) == TrimRight(TrimLeft(t))

\* lines 165-166
Normalize(t) == utf8_trim_whitespace(replace_substring_regex(t))

\* ------------------------------------------------------------ the filter
\* Arrow booleans are three-valued: "true", "false" or "null".
is_valid(t) == IF t # NULL THEN "true" ELSE "false"
\* the comparison written >= 0
utf8_length_ge0(t) ==
    IF t = NULL THEN "null" ELSE IF Len(t) >= 0 THEN "true" ELSE "false"
utf8_length_gt0(t) ==
    IF t = NULL THEN "null" ELSE IF Len(t) > 0 THEN "true" ELSE "false"
\* pa.compute.and_ is the non-Kleene and: a null operand gives null.
and_(a, b) ==
    IF a = "null" \/ b = "null" THEN "null"
    ELSE IF a = "true" /\ b = "true" THEN "true" ELSE "false"

valid_mask(tbl) ==
    [i \in 1..Len(tbl) |->
        and_(is_valid(tbl[i].plain_text), utf8_length_gt0(tbl[i].plain_text))]

\* Table.filter keeps the rows whose mask is true, in order (null drops).
RECURSIVE FilterFrom(_, _, _)
FilterFrom(tbl, mask, i) ==
    IF i > Len(tbl) THEN <<>>
    ELSE (IF mask[i] = "true" THEN <<tbl[i]>> ELSE <<>>)
         \o FilterFrom(tbl, mask, i + 1)

filter(tbl) == FilterFrom(tbl, valid_mask(tbl), 1)

\* filtered_tbl.set_column(0, "plain_text", normalized)
normalized_tbl(filtered) ==
    [i \in 1..Len(filtered) |->
        [filtered[i] EXCEPT !.plain_text = Normalize(filtered[i].plain_text)]]

RECURSIVE SumLen(_)
SumLen(tbl) ==
    IF tbl = <<>> THEN 0 ELSE Len(Head(tbl).plain_text) + SumLen(Tail(tbl))

original_size(filtered) == SumLen(filtered)
normalized_size(filtered) == SumLen(normalized_tbl(filtered))
\* the difference taken the other way round
bytes_saved_negated(filtered) ==
    normalized_size(filtered) - original_size(filtered)
bytes_saved(filtered) == original_size(filtered) - normalized_size(filtered)

\* ------------------------------------------------------------------ state
VARIABLES
    pc,             \* "start","open_csv","open_writer","loop","done","aborted"
    error,          \* what aborted the run, "none" otherwise
    rows_per_shard, \* args.rows_per_shard
    header,         \* the column names of the source's header row
    columns,        \* column names of every decoded batch
    pulls,          \* batches pulled from the reader so far
    decoded,        \* rows decoded so far (all batches)
    survived,       \* ids of the rows that passed the filter, in decode order
    shards,         \* shards[i+1]: the rows written to part-i
    is_open,        \* is_open[i+1]: the writer of part-i is open
    close_calls,    \* close_calls[i+1]: what each close() of part-i's writer did
    writer,         \* index of the shard the variable `writer` refers to
    total, rows_in_shard, shard_i,
    stats,          \* DataStreamingStats
    events,         \* what the run did and logged, in order
    \* one batch taken through lines 145-181 on its own
    tr_pc,          \* "idle","input","skipped","filtered_out","filtered",
                    \* "normalized","renormalized"
    tr_tbl,         \* tbl
    tr_filtered,    \* filtered_tbl
    tr_normalized,  \* normalized_tbl
    tr_saved,       \* bytes_saved
    tr_again        \* normalized_tbl normalized once more

vars == <<pc, error, rows_per_shard, header, columns, pulls, decoded, survived,
          shards, is_open, close_calls, writer, total, rows_in_shard, shard_i,
          stats, events, tr_pc, tr_tbl, tr_filtered, tr_normalized, tr_saved,
          tr_again>>

run_vars == <<pc, error, rows_per_shard, header, columns, pulls, decoded,
              survived, shards, is_open, close_calls, writer, total,
              rows_in_shard, shard_i, stats, events>>
tr_vars == <<tr_pc, tr_tbl, tr_filtered, tr_normalized, tr_saved, tr_again>>

\* DataStreamingStats.__init__
StatsInit ==
    [download_time |-> 0, bytes_streamed |-> 0, bytes_saved |-> 0,
     total_rows |-> 0, total_rows_filtered |-> 0, parquet_files_created |-> 0,
     batches_processed |-> 0, per_batch_time |-> <<>>]

get_space_saving(s) ==
    IF s.bytes_streamed = 0 THEN 0
    ELSE 100 - (((s.bytes_streamed - s.bytes_saved) * 100) \div s.bytes_streamed)

get_retention_rate(s) ==
    IF s.total_rows = 0 THEN 0
    ELSE (s.total_rows_filtered * 100) \div s.total_rows

Init ==
    /\ pc = "start"
    /\ error = "none"
    /\ rows_per_shard \in 1..MaxThreshold
    /\ header \in SUBSET NEEDED_COLS
    /\ columns = {}
    /\ pulls = 0
    /\ decoded = 0
    /\ survived = <<>>
    /\ shards = <<>>
    /\ is_open = <<>>
    /\ close_calls = <<>>
    /\ writer = -1
    /\ total = 0 /\ rows_in_shard = 0 /\ shard_i = 0
    /\ stats = StatsInit
    /\ events = <<>>
    /\ tr_pc = "idle"
    /\ tr_tbl = <<>> /\ tr_filtered = <<>> /\ tr_normalized = <<>>
    /\ tr_saved = 0 /\ tr_again = <<>>

\* ---------------------------------------------------------------- startup
\* lines 115-117: the HTTP GET and the bz2 wrapper; raise_for_status aborts.
req_unzip_data ==
    /\ pc = "start"
    /\ \E ok \in BOOLEAN, d \in Durations :
        IF ok
        THEN /\ pc' = "open_csv"
             /\ stats' = [stats EXCEPT !.download_time = d]
             /\ error' = error
        ELSE /\ pc' = "aborted"
             /\ error' = "transport"
             /\ stats' = stats
    /\ UNCHANGED <<rows_per_shard, header, columns, pulls, decoded, survived,
                   shards, is_open, close_calls, writer, total, rows_in_shard,
                   shard_i, events>>
    /\ UNCHANGED tr_vars

\* open_csv without the check of the header against include_columns
open_csv_unchecked ==
    /\ pc = "open_csv"
    /\ \E decompressed \in BOOLEAN :
        IF ~decompressed
        THEN /\ pc' = "aborted" /\ error' = "decompression"
             /\ columns' = columns
        ELSE /\ pc' = "open_writer" /\ error' = error
             /\ columns' = NEEDED_COLS
    /\ UNCHANGED <<rows_per_shard, header, pulls, decoded, survived, shards,
                   is_open, close_calls, writer, total, rows_in_shard, shard_i,
                   stats, events>>
    /\ UNCHANGED tr_vars

\* line 128: open_csv reads the first block (decompressing it) and the header;
\* a column of include_columns that the header lacks is an error.
open_csv ==
    /\ pc = "open_csv"
    /\ \E decompressed \in BOOLEAN :
        IF ~decompressed
        THEN /\ pc' = "aborted" /\ error' = "decompression"
             /\ columns' = columns
        ELSE IF ~(NEEDED_COLS \subseteq header)
        THEN /\ pc' = "aborted" /\ error' = "schema"
             /\ columns' = columns
        ELSE /\ pc' = "open_writer" /\ error' = error
             /\ columns' = NEEDED_COLS
    /\ UNCHANGED <<rows_per_shard, header, pulls, decoded, survived, shards,
                   is_open, close_calls, writer, total, rows_in_shard, shard_i,
                   stats, events>>
    /\ UNCHANGED tr_vars

\* lines 133-135: the writer of part-00000, then the counters.
open_first_writer ==
    /\ pc = "open_writer"
    /\ \E ok \in BOOLEAN :
        IF ok
        THEN /\ shards' = <<<<>>>>
             /\ is_open' = <<TRUE>>
             /\ close_calls' = <<<<>>>>
             /\ writer' = 0
             /\ pc' = "loop" /\ error' = error
             /\ events' = Append(events, "open")
        ELSE /\ pc' = "aborted" /\ error' = "shard_open"
             /\ events' = Append(events, "open_failed")
             /\ UNCHANGED <<shards, is_open, close_calls, writer>>
    /\ total' = 0 /\ rows_in_shard' = 0 /\ shard_i' = 0
    /\ UNCHANGED <<rows_per_shard, header, columns, pulls, decoded, survived,
                   stats>>
    /\ UNCHANGED tr_vars

\* ------------------------------------------------------------- the batches
BatchTexts == UNION {[1..n -> Texts] : n \in 0..MaxBatchRows}

\* The batch the reader yields next: its rows are numbered in decode order.
MakeBatch(texts) ==
    [i \in 1..Len(texts) |-> [id |-> decoded + i, plain_text |-> texts[i]]]

\* ids of the rows of a batch whose text is neither null nor empty
RECURSIVE SurvivingIds(_)
SurvivingIds(batch) ==
    IF batch = <<>> THEN <<>>
    ELSE (IF Head(batch).plain_text \notin {NULL, <<>>}
          THEN <<Head(batch).id>> ELSE <<>>) \o SurvivingIds(Tail(batch))

\* line 147
Skipped(tbl) == Len(tbl) = 0 \/ "plain_text" \notin columns

\* the two row counters updated with each other's increment
UpdateStatsSwapped(s, tbl, filtered) ==
    [s EXCEPT !.bytes_streamed = @ + original_size(filtered),
              !.bytes_saved = @ + bytes_saved(filtered),
              !.total_rows = @ + Len(filtered),
              !.total_rows_filtered = @ + Len(tbl)]

\* the byte counter assigned (=) where the code accumulates (+=)
UpdateStatsAssign(s, tbl, filtered) ==
    [s EXCEPT !.bytes_streamed = original_size(filtered),
              !.bytes_saved = @ + bytes_saved(filtered),
              !.total_rows = @ + Len(tbl),
              !.total_rows_filtered = @ + Len(filtered)]

\* lines 174-177
UpdateStats(s, tbl, filtered) ==
    [s EXCEPT !.bytes_streamed = @ + original_size(filtered),
              !.bytes_saved = @ + bytes_saved(filtered),
              !.total_rows = @ + Len(tbl),
              !.total_rows_filtered = @ + Len(filtered)]

\* a write that replaces what the shard holds
write_table_overwrite(sh, w, tbl) == [sh EXCEPT ![w + 1] = tbl]
\* a write that puts the batch in front of the rows already written
write_table_prepend(sh, w, tbl) == [sh EXCEPT ![w + 1] = tbl \o @]

\* line 183: the rows are appended to the shard the writer has open
write_table(sh, w, tbl) == [sh EXCEPT ![w + 1] = @ \o tbl]

\* the next writer opened on the path of the shard just closed
OpenShardStale(sh, i) == [sh EXCEPT ![i] = <<>>]

\* pq.ParquetWriter(shard_path(i)) creates (or truncates) part-i
OpenShard(sh, i) ==
    IF i + 1 <= Len(sh) THEN [sh EXCEPT ![i + 1] = <<>>] ELSE Append(sh, <<>>)
OpenFlag(io, i) ==
    IF i + 1 <= Len(io) THEN [io EXCEPT ![i + 1] = TRUE] ELSE Append(io, TRUE)
OpenCalls(cc, i) ==
    IF i + 1 <= Len(cc) THEN [cc EXCEPT ![i + 1] = <<>>] ELSE Append(cc, <<>>)

\* writer.close() returns: it finalizes the file if the writer is open and
\* does nothing on a writer that is closed already
CloseCall(cc, io, w) ==
    [cc EXCEPT ![w + 1] =
        Append(@, IF io[w + 1] THEN "closed" ELSE "already_closed")]
\* writer.close() raises
FailedClose(cc, w) == [cc EXCEPT ![w + 1] = Append(@, "failed")]
\* a close that returns leaves the writer closed
Closed(io, w) == [io EXCEPT ![w + 1] = FALSE]

\* line 186
RollsOver(ris) == ris >= rows_per_shard

\* lines 197-203: the full summary every 25th batch, else the one-line record
BatchReport(s) ==
    IF s.batches_processed % SUMMARY_EVERY = 0 THEN "summary" ELSE "batch"

\* ---------------------------------------------------------------- the loop
\* lines 138-149: a batch with no rows (or without plain_text) is skipped
SkipBatch(texts) ==
    LET tbl == MakeBatch(texts) IN
    /\ pc = "loop" /\ pulls < MaxBatches
    /\ Skipped(tbl)
    /\ pulls' = pulls + 1
    /\ decoded' = decoded + Len(tbl)
    /\ survived' = survived \o SurvivingIds(tbl)
    /\ events' = Append(events, "warning")
    /\ UNCHANGED <<pc, error, rows_per_shard, header, columns, shards, is_open,
                   close_calls, writer, total, rows_in_shard, shard_i, stats>>
    /\ UNCHANGED tr_vars

\* a skip that counts the rows of the batch as seen before it continues
SkipFilteredCounting(texts) ==
    LET tbl == MakeBatch(texts) IN
    /\ pc = "loop" /\ pulls < MaxBatches
    /\ ~Skipped(tbl)
    /\ Len(filter(tbl)) = 0
    /\ pulls' = pulls + 1
    /\ decoded' = decoded + Len(tbl)
    /\ survived' = survived \o SurvivingIds(tbl)
    /\ events' = Append(events, "filtered_out")
    /\ stats' = [stats EXCEPT !.total_rows = @ + Len(tbl)]
    /\ UNCHANGED <<pc, error, rows_per_shard, header, columns, shards, is_open,
                   close_calls, writer, total, rows_in_shard, shard_i>>
    /\ UNCHANGED tr_vars

\* lines 150-160: a batch of which no row passes the filter is skipped
SkipFiltered(texts) ==
    LET tbl == MakeBatch(texts) IN
    /\ pc = "loop" /\ pulls < MaxBatches
    /\ ~Skipped(tbl)
    /\ Len(filter(tbl)) = 0
    /\ pulls' = pulls + 1
    /\ decoded' = decoded + Len(tbl)
    /\ survived' = survived \o SurvivingIds(tbl)
    /\ events' = Append(events, "filtered_out")
    /\ UNCHANGED <<pc, error, rows_per_shard, header, columns, shards, is_open,
                   close_calls, writer, total, rows_in_shard, shard_i, stats>>
    /\ UNCHANGED tr_vars

\* lines 138-204: one whole iteration that writes the batch, rolling the
\* shard over when the threshold is reached
WriteBatch(texts, d) ==
    LET tbl == MakeBatch(texts)
        filtered == filter(tbl)
        n == Len(filtered)
        s1 == UpdateStats(stats, tbl, filtered)
        sh1 == write_table(shards, writer, normalized_tbl(filtered))
        ris == rows_in_shard + n
        roll == RollsOver(ris)
        s2 == IF roll THEN [s1 EXCEPT !.parquet_files_created = @ + 1] ELSE s1
        s3 == [s2 EXCEPT !.per_batch_time = Append(@, d),
                         !.batches_processed = @ + 1]
    IN
    /\ pc = "loop" /\ pulls < MaxBatches
    /\ ~Skipped(tbl)
    /\ n > 0
    /\ pulls' = pulls + 1
    /\ decoded' = decoded + Len(tbl)
    /\ survived' = survived \o SurvivingIds(tbl)
    /\ total' = total + n
    /\ IF roll
       THEN /\ shard_i' = shard_i + 1
            /\ rows_in_shard' = 0
            /\ shards' = OpenShard(sh1, shard_i + 1)
            /\ is_open' = OpenFlag(Closed(is_open, writer), shard_i + 1)
            /\ close_calls' =
                 OpenCalls(CloseCall(close_calls, is_open, writer), shard_i + 1)
            /\ writer' = shard_i + 1
            /\ events' = events \o <<"close", "open", BatchReport(s3)>>
       ELSE /\ shard_i' = shard_i
            /\ rows_in_shard' = ris
            /\ shards' = sh1
            /\ events' = Append(events, BatchReport(s3))
            /\ UNCHANGED <<is_open, close_calls, writer>>
    /\ stats' = s3
    /\ UNCHANGED <<pc, error, rows_per_shard, header, columns>>
    /\ UNCHANGED tr_vars

\* line 138: the reader raises while decoding the next batch; nothing catches
\* it, so the finally clause closes the writer and the error leaves main.
DecodeError ==
    /\ pc = "loop"
    /\ \E resync \in BOOLEAN :
         error' = IF resync THEN "decode_resync" ELSE "decode_fatal"
    /\ pc' = "aborted"
    /\ close_calls' = CloseCall(close_calls, is_open, writer)
    /\ is_open' = Closed(is_open, writer)
    /\ events' = Append(events, "close")
    /\ UNCHANGED <<rows_per_shard, header, columns, pulls, decoded, survived,
                   shards, writer, total, rows_in_shard, shard_i, stats>>
    /\ UNCHANGED tr_vars

\* lines 145-171: an error while the pulled batch is filtered or normalized
TransformError(texts) ==
    LET tbl == MakeBatch(texts) IN
    /\ pc = "loop" /\ pulls < MaxBatches
    /\ ~Skipped(tbl)
    /\ pulls' = pulls + 1
    /\ decoded' = decoded + Len(tbl)
    /\ survived' = survived
    /\ pc' = "aborted" /\ error' = "transform"
    /\ close_calls' = CloseCall(close_calls, is_open, writer)
    /\ is_open' = Closed(is_open, writer)
    /\ events' = Append(events, "close")
    /\ UNCHANGED <<rows_per_shard, header, columns, shards, writer, total,
                   rows_in_shard, shard_i, stats>>
    /\ UNCHANGED tr_vars

\* line 183 raises: the statistics are already updated, nothing is written
WriteTableError(texts) ==
    LET tbl == MakeBatch(texts)
        filtered == filter(tbl)
    IN
    /\ pc = "loop" /\ pulls < MaxBatches
    /\ ~Skipped(tbl)
    /\ Len(filtered) > 0
    /\ pulls' = pulls + 1
    /\ decoded' = decoded + Len(tbl)
    /\ survived' = survived \o SurvivingIds(tbl)
    /\ stats' = UpdateStats(stats, tbl, filtered)
    /\ pc' = "aborted" /\ error' = "write_table"
    /\ close_calls' = CloseCall(close_calls, is_open, writer)
    /\ is_open' = Closed(is_open, writer)
    /\ events' = Append(events, "close")
    /\ UNCHANGED <<rows_per_shard, header, columns, shards, writer, total,
                   rows_in_shard, shard_i>>
    /\ UNCHANGED tr_vars

\* line 187 raises: the failed close leaves the writer open (ParquetWriter
\* clears is_open only after the close returned), and the finally clause
\* calls close on the same writer again.
RolloverCloseError(texts) ==
    LET tbl == MakeBatch(texts)
        filtered == filter(tbl)
        n == Len(filtered)
    IN
    /\ pc = "loop" /\ pulls < MaxBatches
    /\ ~Skipped(tbl)
    /\ n > 0
    /\ RollsOver(rows_in_shard + n)
    /\ pulls' = pulls + 1
    /\ decoded' = decoded + Len(tbl)
    /\ survived' = survived \o SurvivingIds(tbl)
    /\ stats' = UpdateStats(stats, tbl, filtered)
    /\ shards' = write_table(shards, writer, normalized_tbl(filtered))
    /\ total' = total + n
    /\ rows_in_shard' = rows_in_shard + n
    /\ pc' = "aborted" /\ error' = "shard_close"
    /\ close_calls' = CloseCall(FailedClose(close_calls, writer), is_open, writer)
    /\ is_open' = Closed(is_open, writer)
    /\ events' = events \o <<"close_failed", "close">>
    /\ UNCHANGED <<rows_per_shard, header, columns, writer, shard_i>>
    /\ UNCHANGED tr_vars

\* line 190 raises: the full shard is closed and shard_i advanced, but
\* `writer` still names the closed writer, which the finally clause closes
\* again.
RolloverOpenError(texts) ==
    LET tbl == MakeBatch(texts)
        filtered == filter(tbl)
        n == Len(filtered)
    IN
    /\ pc = "loop" /\ pulls < MaxBatches
    /\ ~Skipped(tbl)
    /\ n > 0
    /\ RollsOver(rows_in_shard + n)
    /\ pulls' = pulls + 1
    /\ decoded' = decoded + Len(tbl)
    /\ survived' = survived \o SurvivingIds(tbl)
    /\ stats' = UpdateStats(stats, tbl, filtered)
    /\ shards' = write_table(shards, writer, normalized_tbl(filtered))
    /\ total' = total + n
    /\ rows_in_shard' = 0
    /\ shard_i' = shard_i + 1
    /\ pc' = "aborted" /\ error' = "shard_open"
    /\ close_calls' = CloseCall(CloseCall(close_calls, is_open, writer),
                                Closed(is_open, writer), writer)
    /\ is_open' = Closed(is_open, writer)
    /\ events' = events \o <<"close", "open_failed", "close">>
    /\ UNCHANGED <<rows_per_shard, header, columns, writer>>
    /\ UNCHANGED tr_vars

\* lines 206-210: the reader is exhausted; the finally clause closes the
\* writer and the completion line is logged.
EndOfStream ==
    /\ pc = "loop"
    /\ pc' = "done"
    /\ close_calls' = CloseCall(close_calls, is_open, writer)
    /\ is_open' = Closed(is_open, writer)
    /\ events' = events \o <<"close", "complete">>
    /\ UNCHANGED <<error, rows_per_shard, header, columns, pulls, decoded,
                   survived, shards, writer, total, rows_in_shard, shard_i,
                   stats>>
    /\ UNCHANGED tr_vars

Next ==
    \/ req_unzip_data
    \/ open_csv
    \/ open_first_writer
    \/ \E texts \in BatchTexts : SkipBatch(texts)
    \/ \E texts \in BatchTexts : SkipFiltered(texts)
    \/ \E texts \in BatchTexts, d \in Durations : WriteBatch(texts, d)
    \/ DecodeError
    \/ \E texts \in BatchTexts : TransformError(texts)
    \/ \E texts \in BatchTexts : WriteTableError(texts)
    \/ \E texts \in BatchTexts : RolloverCloseError(texts)
    \/ \E texts \in BatchTexts : RolloverOpenError(texts)
    \/ EndOfStream

Spec == Init /\ [][Next]_vars

\* ------------------------------------------- the transform of one batch
\* Lines 145-181 applied to one batch, step by step, for batches that the
\* run above is too small to hold.
SeqsUpTo(S, n) == UNION {[1..k -> S] : k \in 0..n}

FilterInputs == SeqsUpTo(Texts, MaxFilterRows)
SizeTexts == {NULL} \cup SeqsUpTo({"a", "\n", "nbsp"}, MaxSizeLen)
SizeInputs == SeqsUpTo(SizeTexts, MaxSizeRows)
NormInputs == {<<t>> : t \in SeqsUpTo(Alphabet, MaxNormLen)}

\* the run stands in its loop with part-00000 open and pulls one batch
InitTransform ==
    /\ pc = "loop"
    /\ error = "none"
    /\ rows_per_shard = 1
    /\ header = NEEDED_COLS
    /\ columns = NEEDED_COLS
    /\ pulls = 0
    /\ decoded = 0
    /\ survived = <<>>
    /\ shards = <<<<>>>>
    /\ is_open = <<TRUE>>
    /\ close_calls = <<<<>>>>
    /\ writer = 0
    /\ total = 0 /\ rows_in_shard = 0 /\ shard_i = 0
    /\ stats = StatsInit
    /\ events = <<"open">>
    /\ tr_pc = "input"
    /\ \E texts \in FilterInputs \cup SizeInputs \cup NormInputs :
           tr_tbl = MakeBatch(texts)
    /\ tr_filtered = <<>> /\ tr_normalized = <<>>
    /\ tr_saved = 0 /\ tr_again = <<>>

\* lines 145-149
ApplySkip ==
    /\ tr_pc = "input"
    /\ Skipped(tr_tbl)
    /\ tr_pc' = "skipped"
    /\ UNCHANGED <<tr_tbl, tr_filtered, tr_normalized, tr_saved, tr_again>>
    /\ UNCHANGED run_vars

\* lines 150-160
ApplyFilter ==
    /\ tr_pc = "input"
    /\ ~Skipped(tr_tbl)
    /\ tr_filtered' = filter(tr_tbl)
    /\ tr_pc' = IF Len(tr_filtered') = 0 THEN "filtered_out" ELSE "filtered"
    /\ UNCHANGED <<tr_tbl, tr_normalized, tr_saved, tr_again>>
    /\ UNCHANGED run_vars

\* lines 162-180
ApplyNormalize ==
    /\ tr_pc = "filtered"
    /\ tr_normalized' = normalized_tbl(tr_filtered)
    /\ tr_saved' = bytes_saved(tr_filtered)
    /\ tr_pc' = "normalized"
    /\ UNCHANGED <<tr_tbl, tr_filtered, tr_again>>
    /\ UNCHANGED run_vars

\* lines 165-166 applied to their own result
ApplyNormalizeAgain ==
    /\ tr_pc = "normalized"
    /\ tr_again' = normalized_tbl(tr_normalized)
    /\ tr_pc' = "renormalized"
    /\ UNCHANGED <<tr_tbl, tr_filtered, tr_normalized, tr_saved>>
    /\ UNCHANGED run_vars

NextTransform ==
    \/ ApplySkip
    \/ ApplyFilter
    \/ ApplyNormalize
    \/ ApplyNormalizeAgain

SpecTransform == InitTransform /\ [][NextTransform]_vars

TypeOK ==
    /\ pc \in {"start", "open_csv", "open_writer", "loop", "done", "aborted"}
    /\ Len(shards) = Len(is_open) /\ Len(shards) = Len(close_calls)

\* ------------------------------------------------------------- properties
Ended == pc \in {"done", "aborted"}
NumShards == Len(shards)

RECURSIVE Concat(_)
Concat(ss) == IF ss = <<>> THEN <<>> ELSE Head(ss) \o Concat(Tail(ss))

Ids(rows) == [i \in 1..Len(rows) |-> rows[i].id]

\* the position of the last "close" among the events (0 if there is none)
LastClose ==
    LET S == {i \in 1..Len(events) : events[i] = "close"} IN
    IF S = {} THEN 0 ELSE CHOOSE i \in S : \A j \in S : j <= i

\* C1: when the run has ended at end-of-stream, every shard file except the
\* last one holds exactly rows_per_shard rows.
C1_FullShardsHoldThreshold ==
    pc = "done" =>
        \A i \in 1..(NumShards - 1) : Len(shards[i]) = rows_per_shard

\* C2: on every exit path each writer has been closed exactly once: none is
\* left open, and close was never called on a writer that was closed already.
C2_ClosedExactlyOnce ==
    Ended =>
        \A i \in 1..NumShards :
            /\ ~is_open[i]
            /\ \A k \in 1..Len(close_calls[i]) :
                   close_calls[i][k] # "already_closed"

\* C3: after a run that reached end-of-stream, the shards together hold as
\* many rows as survived the filter, which is also the counter `total`.
C3_RowsConserved ==
    pc = "done" =>
        /\ Len(Concat(shards)) = Len(survived)
        /\ Len(Concat(shards)) = total

C3_Witness ==
    /\ pc = "done"
    /\ NumShards >= 2
    /\ total >= 2
    /\ decoded > total
    /\ pulls = MaxBatches

\* C4: the rows of all shards, concatenated in shard order, are the surviving
\* rows in decode order.
C4_ShardOrderIsDecodeOrder ==
    pc \in {"loop", "done"} => Ids(Concat(shards)) = survived

C4_Witness ==
    /\ pc = "done"
    /\ NumShards >= 2
    /\ Len(shards[1]) >= 2
    /\ Len(shards[2]) >= 1
    /\ decoded > Len(survived)

\* C5: when a run with surviving rows has ended, the last shard file holds
\* between 1 and rows_per_shard rows.
C5_LastShardNonEmpty ==
    (pc = "done" /\ total > 0) =>
        /\ Len(shards[NumShards]) > 0
        /\ Len(shards[NumShards]) <= rows_per_shard

\* C6: when the transport or decompression setup fails, or the header lacks a
\* column of NEEDED_COLS, the run aborts with no row decoded, no writer opened
\* and no shard file created.
StartupFailed ==
    \/ error \in {"transport", "decompression", "schema"}
    \/ (~(NEEDED_COLS \subseteq header) /\ pc \notin {"start", "open_csv"})

C6_StartupFailureLeavesNothing ==
    StartupFailed =>
        /\ pc = "aborted"
        /\ shards = <<>>
        /\ writer = -1
        /\ decoded = 0
        /\ pulls = 0
        /\ \A k \in 1..Len(events) : events[k] # "open"

C6_Witness ==
    /\ pc = "aborted"
    /\ error = "schema"
    /\ header = {"id", "plain_text", "author_id", "type"}
    /\ shards = <<>>

\* C7: every run that reached end-of-stream has printed the full summary
\* after the final shard was closed.
C7_FinalSummaryPrinted ==
    pc = "done" =>
        \E i \in 1..Len(events) : events[i] = "summary" /\ i > LastClose

\* C8: a decode error from which the decoder could resynchronize does not
\* abort the run.
C8_RecoverableErrorDoesNotAbort ==
    ~(pc = "aborted" /\ error = "decode_resync")

\* C9: the rows-seen counter equals the number of rows decoded so far, the
\* rows of skipped batches included.
C9_TotalRowsCountsDecoded ==
    pc \in {"loop", "done"} => stats.total_rows = decoded

\* C10: the retained rows never exceed the rows seen, the bytes saved never
\* exceed the bytes streamed, both rates lie in 0..100 and are 0 when their
\* denominator is 0.
C10_RatesInRange ==
    /\ 0 <= stats.total_rows_filtered
    /\ stats.total_rows_filtered <= stats.total_rows
    /\ 0 <= stats.bytes_saved
    /\ stats.bytes_saved <= stats.bytes_streamed
    /\ get_retention_rate(stats) \in 0..100
    /\ get_space_saving(stats) \in 0..100
    /\ (stats.total_rows = 0 => get_retention_rate(stats) = 0)
    /\ (stats.bytes_streamed = 0 => get_space_saving(stats) = 0)

C10_Witness ==
    /\ stats.total_rows_filtered > 0
    /\ stats.total_rows_filtered < stats.total_rows
    /\ stats.bytes_saved > 0
    /\ stats.bytes_saved < stats.bytes_streamed
    /\ get_retention_rate(stats) = 50

\* the number of writers opened so far
OpenCount == Cardinality({k \in 1..Len(events) : events[k] = "open"})

\* C12: a shard that is closed is never opened or written again: its content
\* and its closed state stay as they are in every later step, the shard
\* index never decreases, and every writer is opened on a new path.
C12_ClosedShardsAreFinal ==
    [][/\ \A i \in 1..NumShards :
            ~is_open[i] =>
                /\ i <= Len(shards')
                /\ shards'[i] = shards[i]
                /\ ~is_open'[i]
       /\ shard_i' >= shard_i
       /\ OpenCount' > OpenCount =>
            /\ Len(shards') = NumShards + 1
            /\ shards'[Len(shards')] = <<>>
            /\ \A i \in 1..NumShards : Len(shards'[i]) >= Len(shards[i])]_vars

C12_Witness ==
    /\ pc = "aborted"
    /\ error = "write_table"
    /\ NumShards = 2
    /\ ~is_open[1]
    /\ Len(shards[1]) >= 1

\* C15: at run end, on every exit path, the rows-retained counter equals the
\* number of rows written to the shards.
C15_RetainedEqualsWritten ==
    (Ended /\ writer >= 0) =>
        stats.total_rows_filtered = Len(Concat(shards))

\* C16: a step that skips a batch leaves the shard index, rows_in_shard, the
\* run-wide total, the open writer, the shards and every statistics counter
\* unchanged, and the loop goes on.
SkipStep ==
    /\ Len(events') = Len(events) + 1
    /\ events'[Len(events')] \in {"warning", "filtered_out"}

C16_SkipChangesNothing ==
    [][SkipStep =>
        /\ shard_i' = shard_i
        /\ rows_in_shard' = rows_in_shard
        /\ total' = total
        /\ writer' = writer
        /\ shards' = shards
        /\ is_open' = is_open
        /\ close_calls' = close_calls
        /\ stats' = stats
        /\ pc' = "loop"
        /\ error' = "none"]_vars

C16_Witness ==
    /\ events # <<>>
    /\ events[Len(events)] = "filtered_out"
    /\ decoded > stats.total_rows
    /\ total > 0
    /\ stats.batches_processed = 1

\* C17: no statistics counter ever decreases, and per_batch_time changes only
\* by an append.
C17_CountersMonotone ==
    [][/\ stats'.total_rows >= stats.total_rows
       /\ stats'.total_rows_filtered >= stats.total_rows_filtered
       /\ stats'.parquet_files_created >= stats.parquet_files_created
       /\ stats'.batches_processed >= stats.batches_processed
       /\ stats'.bytes_streamed >= stats.bytes_streamed
       /\ stats'.bytes_saved >= stats.bytes_saved
       /\ \/ stats'.per_batch_time = stats.per_batch_time
          \/ /\ Len(stats'.per_batch_time) = Len(stats.per_batch_time) + 1
             /\ SubSeq(stats'.per_batch_time, 1, Len(stats.per_batch_time))
                    = stats.per_batch_time]_vars

C17_Witness ==
    /\ stats.batches_processed = 2
    /\ Len(stats.per_batch_time) = 2
    /\ stats.parquet_files_created >= 1
    /\ stats.bytes_saved > 0
    /\ stats.bytes_streamed > stats.bytes_saved

\* C18: at run end the shards-created statistic equals the number of shard
\* files the run created, part-00000 included.
C18_FilesCreatedCounted ==
    pc = "done" => stats.parquet_files_created = NumShards

\* C19: every row written to a shard has a non-empty plain_text.
C19_NoEmptyTextWritten ==
    \A i \in 1..NumShards :
        \A k \in 1..Len(shards[i]) : shards[i][k].plain_text # <<>>

\* ------------------------------------------ properties of the transform
KeepRow(r) == r.plain_text # NULL /\ Len(r.plain_text) > 0
Filtered == tr_pc \in {"filtered_out", "filtered", "normalized", "renormalized"}
Normalized == tr_pc \in {"normalized", "renormalized"}

\* C11: the filter keeps exactly the rows whose plain_text is non-null and
\* longer than zero, whole rows and in their order, so the filtered batch has
\* at most the rows of the raw batch and the normalized batch has the rows
\* of the filtered one.
C11_FilterKeepsNonEmptyText ==
    /\ Filtered =>
        /\ tr_filtered = SelectSeq(tr_tbl, KeepRow)
        /\ Len(tr_filtered) <= Len(tr_tbl)
    /\ Normalized =>
        /\ Len(tr_normalized) = Len(tr_filtered)
        /\ Ids(tr_normalized) = Ids(tr_filtered)

C11_Witness ==
    /\ tr_pc = "filtered"
    /\ tr_tbl = <<[id |-> 1, plain_text |-> <<"a">>],
                  [id |-> 2, plain_text |-> <<>>],
                  [id |-> 3, plain_text |-> NULL]>>
    /\ tr_filtered = <<[id |-> 1, plain_text |-> <<"a">>]>>

\* C13: normalizing a normalized text gives the same text.
C13_NormalizeIdempotent ==
    tr_pc = "renormalized" => tr_again = tr_normalized

C13_Witness ==
    /\ tr_pc = "renormalized"
    /\ tr_tbl = <<[id |-> 1, plain_text |-> <<"a", " ", "\n", "a", " ">>]>>
    /\ tr_normalized = <<[id |-> 1, plain_text |-> <<"a", " ", "a">>]>>
    /\ tr_again = tr_normalized

\* a text without leading or trailing whitespace and without two whitespace
\* characters in a row
Clean(t) ==
    /\ t # <<>> => ~IsUnicodeSpace(t[1]) /\ ~IsUnicodeSpace(t[Len(t)])
    /\ \A k \in 1..(Len(t) - 1) :
           ~(IsUnicodeSpace(t[k]) /\ IsUnicodeSpace(t[k + 1]))

\* C14: the bytes saved on a batch are never negative, and are 0 when every
\* text of the batch is free of leading, trailing and repeated whitespace.
C14_BytesSavedNonNegative ==
    Normalized =>
        /\ tr_saved >= 0
        /\ (\A k \in 1..Len(tr_filtered) : Clean(tr_filtered[k].plain_text))
              => tr_saved = 0

C14_Witness ==
    /\ tr_pc = "normalized"
    /\ Len(tr_filtered) >= 1
    /\ \A k \in 1..Len(tr_filtered) : Clean(tr_filtered[k].plain_text)
    /\ tr_normalized # tr_filtered
    /\ tr_saved = 0

====
